---- MODULE Spec2Model ----
(***************************************************************************)
(* Model of the caching layer of ai-hedge-fund:                            *)
(*   src/data/cache.py            the in-memory Cache (per category, per   *)
(*                                ticker record lists, merged by a key     *)
(*                                field) and the pickle files on disk      *)
(*   src/tools/cache_decorators.py the memoizing decorator cache_api_call   *)
(*                                                                         *)
(* Python lists are objects: the in-memory part keeps a heap of the list   *)
(* objects the store refers to, and remembers which of them the caller     *)
(* also holds a reference to.                                              *)
(***************************************************************************)
EXTENDS Integers, Sequences, FiniteSets, TLC

\* ------------------------------------------------------------------ bounds
\* longest list a caller passes to a set_<category> call
MaxLen == 2
\* number of calls (set, get, caller mutation) in one run of the in-memory
\* cache; a set call that repeats the call before it is not counted
MaxCalls == 2

\* latest wall-clock time of a run of the disk cache
MaxTime == 2
\* largest max_age passed to load_from_cache
MaxAge == 1

\* ------------------------------------------------------------ in-memory data
Categories == {"prices", "financial_metrics", "line_items", "insider_trades", "company_news"}

Tickers == {"AAPL", "MSFT"}

\* the key_field argument each set_<category> method passes to _merge_data
key_field ==
  [c \in Categories |->
     CASE c = "prices" -> "time"
       [] c = "financial_metrics" -> "report_period"
       [] c = "line_items" -> "report_period"
       [] c = "insider_trades" -> "filing_date"
       [] c = "company_news" -> "date"]

\* A record is a Python dict: a function from field names to values.
Rec(f, k, p) == (f :> k) @@ ("v" :> p)

\* a dict with no key field at all
BareRecord == ("v" :> "a")

\* The records a caller passes for key field f: two versions of key 1, one of
\* key 2, and a record lacking the field.
RecordsFor(f) == {Rec(f, 1, "a"), Rec(f, 1, "b"), Rec(f, 2, "a"), BareRecord}

SeqsUpTo(S, n) == UNION {[1..m -> S] : m \in 0..n}

\* The lists a caller passes to set_<category>
InputLists(c) == SeqsUpTo(RecordsFor(key_field[c]), MaxLen)

\* dict.get(ticker) of a missing ticker: the null reference
None == 0

Buckets == Categories \X Tickers

Addrs == 1..(Cardinality(Buckets) + 1)

\* ---------------------------------------------------------------- the state
VARIABLES
  heap,        \* address -> [items, held]: the list objects the store refers to
  store,       \* category -> ticker -> address of the stored list, or None
  calls,       \* number of calls made so far
  last,        \* the last call: its arguments, what was stored before, its outcome
  setHistory,  \* category -> ticker -> what the latest set call for it passed
  mutated      \* the caller has changed a list it holds after passing or getting it

memvars == <<heap, store, calls, last, setHistory, mutated>>

VARIABLES
  files,       \* path -> content, for the files that exist
  cache_dir,   \* the directory CACHE_DIR exists
  now,         \* datetime.now()
  dlast,       \* the last disk-cache call: arguments, the file it found, its result
  saved        \* key -> the latest save_to_cache for it since the last clear_cache

diskvars == <<files, cache_dir, now, dlast, saved>>

VARIABLES
  func,        \* the wrapped operation: ticker -> what it returns
  duration,    \* the duration argument of cache_api_call
  wlast        \* the last call of the wrapped function: arguments, key, what happened

wrapvars == <<func, duration, wlast>>

VARIABLES
  klast        \* the last call of get_cache_key: prefix, keyword arguments, the key

keyvars == <<klast>>

VARIABLES
  threads,     \* thread -> its set_prices call: arguments, position, what it read
  overlapped   \* a thread began its call while the other was inside its own

racevars == <<threads, overlapped>>

VARIABLES
  writer       \* the save_to_cache call that has its file open: key, data, position

tornvars == <<writer>>

vars == <<memvars, diskvars, wrapvars, keyvars, racevars, tornvars>>

\* what the in-memory cache, the disk cache, the wrapper and get_cache_key
\* leave alone
notmem == <<diskvars, wrapvars, keyvars, racevars, tornvars>>

notdisk == <<memvars, wrapvars, keyvars, racevars, tornvars>>

notwrap == <<memvars, keyvars, racevars, tornvars>>

notkey == <<memvars, diskvars, wrapvars, racevars, tornvars>>

\* what a set_prices call of a thread, and a save_to_cache call with its file
\* open, leave alone
notrace == <<diskvars, wrapvars, keyvars, tornvars>>

nottorn == <<memvars, wrapvars, keyvars, racevars>>

\* ---------------------------------------------------------- in-memory cache
\* item[key_field] is defined; otherwise the subscript raises KeyError
HasKey(item, f) == f \in DOMAIN item

\* An optional list: <<>> is None, <<items>> a list with these items
Deref(h, ref) == IF ref = None THEN <<>> ELSE <<h[ref].items>>

\* _merge_data with the incoming record replacing the stored one of the same key
merge_data_incoming_wins(existing, new_data, f) ==
  IF existing = <<>> \/ existing[1] = <<>>
    THEN [outcome |-> "return", alias |-> TRUE, items |-> new_data]
    ELSE LET old == existing[1]
             new_keys == {new_data[i][f] : i \in {j \in 1..Len(new_data) : HasKey(new_data[j], f)}}
         IN IF \E i \in 1..Len(old) : ~HasKey(old[i], f)
              THEN [outcome |-> "KeyError", alias |-> FALSE, items |-> <<>>]
            ELSE IF \E i \in 1..Len(new_data) : ~HasKey(new_data[i], f)
              THEN [outcome |-> "KeyError", alias |-> FALSE, items |-> <<>>]
            ELSE [outcome |-> "return", alias |-> FALSE,
                  items |-> SelectSeq(old, LAMBDA item : item[f] \notin new_keys) \o new_data]

\* _merge_data extending the copy with every incoming record
merge_data_unfiltered(existing, new_data, f) ==
  IF existing = <<>> \/ existing[1] = <<>>
    THEN [outcome |-> "return", alias |-> TRUE, items |-> new_data]
    ELSE LET old == existing[1]
         IN IF \E i \in 1..Len(old) : ~HasKey(old[i], f)
              THEN [outcome |-> "KeyError", alias |-> FALSE, items |-> <<>>]
            ELSE IF \E i \in 1..Len(new_data) : ~HasKey(new_data[i], f)
              THEN [outcome |-> "KeyError", alias |-> FALSE, items |-> <<>>]
            ELSE [outcome |-> "return", alias |-> FALSE, items |-> old \o new_data]

\* _merge_data returning the incoming list whatever is stored
merge_data_replace(existing, new_data, f) ==
  [outcome |-> "return", alias |-> TRUE, items |-> new_data]

\* Cache._merge_data(existing, new_data, key_field), existing an optional list.
\* alias: the value returned is the object new_data itself, not a new list.
_merge_data(existing, new_data, f) ==
  IF existing = <<>> \/ existing[1] = <<>>
    THEN [outcome |-> "return", alias |-> TRUE, items |-> new_data]
    ELSE LET old == existing[1]
             existing_keys == {old[i][f] : i \in {j \in 1..Len(old) : HasKey(old[j], f)}}
         IN IF \E i \in 1..Len(old) : ~HasKey(old[i], f)
              THEN [outcome |-> "KeyError", alias |-> FALSE, items |-> <<>>]
            ELSE IF \E i \in 1..Len(new_data) : ~HasKey(new_data[i], f)
              THEN [outcome |-> "KeyError", alias |-> FALSE, items |-> <<>>]
            ELSE [outcome |-> "return", alias |-> FALSE,
                  items |-> old \o SelectSeq(new_data, LAMBDA item : item[f] \notin existing_keys)]

\* the least address not in use
NewAddr(h) == CHOOSE a \in Addrs : a \notin DOMAIN h /\ \A b \in Addrs : b \notin DOMAIN h => a <= b

\* the list objects the store still refers to
Collect(h, s) == [a \in {x \in DOMAIN h : \E b \in Buckets : s[b[1]][b[2]] = x} |-> h[a]]

\* what a caller passes as the list: a list object of its own that the store
\* does not refer to (fresh, with these items), or one the store refers to too
Args(c) ==
  {[fresh |-> TRUE, addr |-> None, items |-> L] : L \in InputLists(c)}
  \cup {[fresh |-> FALSE, addr |-> a, items |-> heap[a].items] : a \in {x \in DOMAIN heap : heap[x].held}}

DataKind(items) == IF items = <<>> THEN "empty" ELSE "nonempty"

\* set_<category> with financial_metrics and line_items kept in one dict
SetCategory_shared_dict(c, t, arg) ==
  LET before == Deref(heap, store[c][t])
      r == _merge_data(before, arg.items, key_field[c])
      target == IF r.alias /\ ~arg.fresh THEN arg.addr ELSE NewAddr(heap)
      object == IF r.alias THEN [items |-> arg.items, held |-> TRUE]
                           ELSE [items |-> r.items, held |-> FALSE]
      stored == [x \in Categories |->
                   IF x = c \/ {x, c} = {"financial_metrics", "line_items"}
                     THEN [store[x] EXCEPT ![t] = target] ELSE store[x]]
      repeat == last.op = "set" /\ ~last.repeat /\ last.c = c /\ last.t = t /\ last.data = arg.items
  IN /\ calls < MaxCalls \/ repeat
     /\ calls' = IF repeat THEN calls ELSE calls + 1
     /\ last' = [op |-> "set", c |-> c, t |-> t, data |-> arg.items, before |-> before,
                 outcome |-> r.outcome, result |-> <<>>, repeat |-> repeat]
     /\ UNCHANGED notmem
     /\ IF r.outcome = "KeyError"
          THEN UNCHANGED <<heap, store, setHistory, mutated>>
          ELSE /\ store' = stored
               /\ heap' = Collect((target :> object) @@ heap, stored)
               /\ setHistory' = [setHistory EXCEPT ![c][t] = DataKind(arg.items)]
               /\ UNCHANGED mutated

\* set_<category> storing, when _merge_data fails, the stored records followed
\* by the incoming ones that have the key field
SetCategory_partial(c, t, arg) ==
  LET before == Deref(heap, store[c][t])
      r == _merge_data(before, arg.items, key_field[c])
      failed == r.outcome = "KeyError"
      target == IF r.alias /\ ~arg.fresh THEN arg.addr ELSE NewAddr(heap)
      object == IF r.alias THEN [items |-> arg.items, held |-> TRUE]
                ELSE IF failed
                  THEN [items |-> before[1] \o SelectSeq(arg.items, LAMBDA x : HasKey(x, key_field[c])),
                        held |-> FALSE]
                ELSE [items |-> r.items, held |-> FALSE]
      stored == [store EXCEPT ![c][t] = target]
      repeat == last.op = "set" /\ ~last.repeat /\ last.c = c /\ last.t = t /\ last.data = arg.items
  IN /\ calls < MaxCalls \/ repeat
     /\ calls' = IF repeat THEN calls ELSE calls + 1
     /\ last' = [op |-> "set", c |-> c, t |-> t, data |-> arg.items, before |-> before,
                 outcome |-> r.outcome, result |-> <<>>, repeat |-> repeat]
     /\ UNCHANGED notmem
     /\ store' = stored
     /\ heap' = Collect((target :> object) @@ heap, stored)
     /\ setHistory' = IF failed THEN setHistory
                                ELSE [setHistory EXCEPT ![c][t] = DataKind(arg.items)]
     /\ UNCHANGED mutated

\* self._<category>_cache[ticker] = self._merge_data(self._<category>_cache.get(ticker), data, key_field)
SetCategory(c, t, arg) ==
  LET before == Deref(heap, store[c][t])
      r == _merge_data(before, arg.items, key_field[c])
      target == IF r.alias /\ ~arg.fresh THEN arg.addr ELSE NewAddr(heap)
      object == IF r.alias THEN [items |-> arg.items, held |-> TRUE]
                           ELSE [items |-> r.items, held |-> FALSE]
      stored == [store EXCEPT ![c][t] = target]
      repeat == last.op = "set" /\ ~last.repeat /\ last.c = c /\ last.t = t /\ last.data = arg.items
  IN /\ calls < MaxCalls \/ repeat
     /\ calls' = IF repeat THEN calls ELSE calls + 1
     /\ last' = [op |-> "set", c |-> c, t |-> t, data |-> arg.items, before |-> before,
                 outcome |-> r.outcome, result |-> <<>>, repeat |-> repeat]
     /\ UNCHANGED notmem
     /\ IF r.outcome = "KeyError"
          THEN UNCHANGED <<heap, store, setHistory, mutated>>
          ELSE /\ store' = stored
               /\ heap' = Collect((target :> object) @@ heap, stored)
               /\ setHistory' = [setHistory EXCEPT ![c][t] = DataKind(arg.items)]
               /\ UNCHANGED mutated

set_prices == \E t \in Tickers : \E arg \in Args("prices") : SetCategory("prices", t, arg)

set_financial_metrics ==
  \E t \in Tickers : \E arg \in Args("financial_metrics") : SetCategory("financial_metrics", t, arg)

set_line_items == \E t \in Tickers : \E arg \in Args("line_items") : SetCategory("line_items", t, arg)

set_insider_trades ==
  \E t \in Tickers : \E arg \in Args("insider_trades") : SetCategory("insider_trades", t, arg)

set_company_news == \E t \in Tickers : \E arg \in Args("company_news") : SetCategory("company_news", t, arg)

\* what self._<category>_cache.get(ticker) returns, as an optional list
cache_get(c, t) == Deref(heap, store[c][t])

\* return self._<category>_cache.get(ticker): the stored list object itself
GetCategory(c, t) ==
  /\ calls < MaxCalls
  /\ calls' = calls + 1
  /\ last' = [op |-> "get", c |-> c, t |-> t, data |-> <<>>, before |-> cache_get(c, t),
              outcome |-> "return", result |-> cache_get(c, t), repeat |-> FALSE]
  /\ heap' = IF store[c][t] = None THEN heap ELSE [heap EXCEPT ![store[c][t]].held = TRUE]
  /\ UNCHANGED <<store, setHistory, mutated>>
  /\ UNCHANGED notmem

get_prices == \E t \in Tickers : GetCategory("prices", t)

get_financial_metrics == \E t \in Tickers : GetCategory("financial_metrics", t)

get_line_items == \E t \in Tickers : GetCategory("line_items", t)

get_insider_trades == \E t \in Tickers : GetCategory("insider_trades", t)

get_company_news == \E t \in Tickers : GetCategory("company_news", t)

AllRecords == UNION {RecordsFor(key_field[c]) : c \in Categories}

\* The caller appends to a list it holds: data.append(record)
caller_append ==
  \E a \in DOMAIN heap : \E r \in AllRecords :
    /\ heap[a].held
    /\ calls < MaxCalls
    /\ calls' = calls + 1
    /\ heap' = [heap EXCEPT ![a].items = Append(@, r)]
    /\ last' = [op |-> "append", c |-> "", t |-> "", data |-> <<r>>, before |-> <<heap[a].items>>,
                outcome |-> "return", result |-> <<>>, repeat |-> FALSE]
    /\ mutated' = TRUE
    /\ UNCHANGED <<store, setHistory>>
    /\ UNCHANGED notmem

\* The caller removes the last record of a list it holds: data.pop()
caller_pop ==
  \E a \in DOMAIN heap :
    /\ heap[a].held
    /\ heap[a].items # <<>>
    /\ calls < MaxCalls
    /\ calls' = calls + 1
    /\ heap' = [heap EXCEPT ![a].items = SubSeq(@, 1, Len(@) - 1)]
    /\ last' = [op |-> "pop", c |-> "", t |-> "", data |-> <<>>, before |-> <<heap[a].items>>,
                outcome |-> "return", result |-> <<>>, repeat |-> FALSE]
    /\ mutated' = TRUE
    /\ UNCHANGED <<store, setHistory>>
    /\ UNCHANGED notmem

\* Two threads call set_prices on the one Cache with no lock.  The statement
\*   self._prices_cache[ticker] = self._merge_data(self._prices_cache.get(ticker), data, ...)
\* first evaluates self._prices_cache.get(ticker), later stores the merged
\* list; the other thread may run in between.
Threads == {1, 2}

ThreadCalls ==
  {[pc |-> "start", t |-> t, data |-> L, existing |-> <<>>] :
     t \in Tickers, L \in InputLists("prices")}

\* self._prices_cache.get(ticker): the thread now holds the stored list
set_prices_read ==
  \E i \in Threads :
    /\ threads[i].pc = "start"
    /\ threads' = [threads EXCEPT ![i].pc = "read",
                                  ![i].existing = cache_get("prices", threads[i].t)]
    /\ overlapped' = (overlapped \/ \E j \in Threads \ {i} : threads[j].pc = "read")
    /\ UNCHANGED memvars
    /\ UNCHANGED notrace

\* _merge_data(existing, data, key_field="time") on the list read before, and
\* the store into self._prices_cache[ticker]
set_prices_write ==
  \E i \in Threads :
    LET t == threads[i].t
        r == _merge_data(threads[i].existing, threads[i].data, key_field["prices"])
        target == NewAddr(heap)
        object == [items |-> r.items, held |-> r.alias]
        stored == [store EXCEPT !["prices"][t] = target]
    IN /\ threads[i].pc = "read"
       /\ threads' = [threads EXCEPT ![i].pc = IF r.outcome = "KeyError" THEN "raised" ELSE "done"]
       /\ IF r.outcome = "KeyError"
            THEN UNCHANGED <<heap, store>>
            ELSE /\ store' = stored
                 /\ heap' = Collect((target :> object) @@ heap, stored)
       /\ UNCHANGED <<calls, last, setHistory, mutated, overlapped>>
       /\ UNCHANGED notrace

\* no thread calls set_prices
NoRace ==
  /\ threads = [i \in Threads |-> [pc |-> "idle", t |-> "", data |-> <<>>, existing |-> <<>>]]
  /\ overlapped = FALSE

\* Cache.__init__: five empty dicts
InitCache ==
  /\ heap = <<>>
  /\ store = [c \in Categories |-> [t \in Tickers |-> None]]
  /\ calls = 0
  /\ last = [op |-> "init", c |-> "", t |-> "", data |-> <<>>, before |-> <<>>,
             outcome |-> "return", result |-> <<>>, repeat |-> FALSE]
  /\ setHistory = [c \in Categories |-> [t \in Tickers |-> "never"]]
  /\ mutated = FALSE

\* ---------------------------------------------------------------- disk cache
\* Strings that are taken apart or put together are sequences of tokens.
PathSep == "/"

\* CACHE_DIR = Path("cache")
CACHE_DIR == << <<"cache">> >>

\* str.split(PathSep): the components of a path string, empty ones included
RECURSIVE SplitPath(_)
SplitPath(s) ==
  IF s = <<>> THEN << <<>> >>
  ELSE LET rest == SplitPath(Tail(s))
       IN IF Head(s) = PathSep THEN << <<>> >> \o rest
          ELSE << <<Head(s)>> \o rest[1] >> \o Tail(rest)

\* pathlib drops the empty and the "." components of a path string
PathParts(s) == SelectSeq(SplitPath(s), LAMBDA part : part # <<>> /\ part # <<".">>)

\* get_cache_path: CACHE_DIR / f"{key}.pickle" (an absolute string replaces CACHE_DIR)
get_cache_path(key) ==
  IF key # <<>> /\ Head(key) = PathSep
    THEN << <<PathSep>> >> \o PathParts(key \o <<".pickle">>)
    ELSE CACHE_DIR \o PathParts(key \o <<".pickle">>)

\* the keys passed to save_to_cache and load_from_cache: "a", "./a" and "../a"
DiskKeys == { <<"a">>, <<".", "/", "a">>, <<"..", "/", "a">> }

\* the values saved
DiskValues == {"d1", "d2"}

\* no max_age argument: max_age=None
NoMaxAge == -1

MaxAges == {NoMaxAge} \cup (0..MaxAge)

\* what pickle.load, the subscripts and the subtraction do with a file:
\*   entry          {"timestamp": datetime, "data": data}, as save_to_cache writes
\*   empty          no bytes: EOFError
\*   truncated      a prefix of a pickle: UnpicklingError
\*   garbage        bytes that are no pickle: UnpicklingError
\*   unknown_class  a pickle naming a class that cannot be imported: ImportError-class
\*   no_timestamp   a dict without "timestamp": KeyError
\*   no_data        a dict with a timestamp and without "data": KeyError on ["data"]
\*   not_mapping    a pickled list: TypeError on ["timestamp"]
\*   bad_timestamp  a dict whose timestamp is a string: TypeError on the subtraction
CorruptKinds ==
  {"empty", "truncated", "garbage", "unknown_class", "no_timestamp", "no_data",
   "not_mapping", "bad_timestamp"}

Entry(ts, data) == [kind |-> "entry", timestamp |-> ts, data |-> data]

NoFile == [kind |-> "absent", timestamp |-> 0, data |-> "None"]

\* the files a run may find in the cache directory when it starts
InitialContents ==
  {Entry(0, v) : v \in DiskValues}
  \cup {[kind |-> k, timestamp |-> 0, data |-> "d1"] : k \in CorruptKinds}

ReadFile(fs, path) == IF path \in DOMAIN fs THEN fs[path] ELSE NoFile

Return(v) == [outcome |-> "return", value |-> v]

Raise(e) == [outcome |-> "raise", value |-> e]

\* load_from_cache with `except (pickle.UnpicklingError, KeyError)`: EOFError escapes
load_from_cache_eof_escapes(fs, t, key, max_age) ==
  LET cache_data == ReadFile(fs, get_cache_path(key))
      kind == cache_data.kind
      age == t - cache_data.timestamp
  IN IF kind = "absent" THEN Return("None")
     ELSE IF kind = "empty" THEN Raise("EOFError")
     ELSE IF kind \in {"truncated", "garbage"} THEN Return("None")
     ELSE IF kind = "unknown_class" THEN Raise("ModuleNotFoundError")
     ELSE IF kind = "not_mapping" THEN Raise("TypeError")
     ELSE IF kind = "no_timestamp" THEN Return("None")
     ELSE IF kind = "bad_timestamp" THEN Raise("TypeError")
     ELSE IF max_age # NoMaxAge /\ max_age # 0 /\ age > max_age THEN Return("None")
     ELSE IF kind = "no_data" THEN Return("None")
     ELSE Return(cache_data.data)

\* load_from_cache(key, max_age) on the files fs at time t: what it returns or raises
load_from_cache(fs, t, key, max_age) ==
  LET cache_data == ReadFile(fs, get_cache_path(key))
      kind == cache_data.kind
      age == t - cache_data.timestamp
  IN IF kind = "absent" THEN Return("None")
     \* pickle.load: EOFError and UnpicklingError are caught
     ELSE IF kind \in {"empty", "truncated", "garbage"} THEN Return("None")
     ELSE IF kind = "unknown_class" THEN Raise("ModuleNotFoundError")
     \* cache_data["timestamp"]
     ELSE IF kind = "not_mapping" THEN Raise("TypeError")
     ELSE IF kind = "no_timestamp" THEN Return("None")
     \* datetime.now() - cache_data["timestamp"]
     ELSE IF kind = "bad_timestamp" THEN Raise("TypeError")
     \* `if max_age and age > max_age`: a zero timedelta is false
     ELSE IF max_age # NoMaxAge /\ max_age # 0 /\ age > max_age THEN Return("None")
     \* cache_data["data"]
     ELSE IF kind = "no_data" THEN Return("None")
     ELSE Return(cache_data.data)

NoCall == [op |-> "init", key |-> <<>>, max_age |-> NoMaxAge, value |-> "None",
           found |-> NoFile, result |-> Return("None")]

NotSaved == [set |-> FALSE, value |-> "None", time |-> 0]

\* the files after save_to_cache(key, data) at time t: the file of the key is
\* opened "wb" and {"timestamp": now, "data": data} is dumped into it
SaveFile(fs, t, key, data) == (get_cache_path(key) :> Entry(t, data)) @@ fs

\* a call of save_to_cache(key, data)
save_to_cache ==
  \E key \in DiskKeys : \E data \in DiskValues :
    /\ files' = SaveFile(files, now, key, data)
    /\ cache_dir' = TRUE
    /\ saved' = [saved EXCEPT ![key] = [set |-> TRUE, value |-> data, time |-> now]]
    /\ dlast' = [op |-> "save", key |-> key, max_age |-> NoMaxAge, value |-> data,
                 found |-> ReadFile(files, get_cache_path(key)), result |-> Return("None")]
    /\ UNCHANGED now
    /\ UNCHANGED notdisk

\* load_from_cache unlinking the file it reports absent (expired or unreadable)
load_call_evicting ==
  \E key \in DiskKeys : \E max_age \in MaxAges :
    LET path == get_cache_path(key)
        result == load_from_cache(files, now, key, max_age)
    IN /\ cache_dir' = TRUE
       /\ dlast' = [op |-> "load", key |-> key, max_age |-> max_age, value |-> "None",
                    found |-> ReadFile(files, path), result |-> result]
       /\ files' = IF path \in DOMAIN files /\ result = Return("None")
                     THEN [q \in DOMAIN files \ {path} |-> files[q]]
                     ELSE files
       /\ UNCHANGED <<now, saved>>
       /\ UNCHANGED notdisk

\* a call of load_from_cache(key, max_age); get_cache_path makes the directory
load_call ==
  \E key \in DiskKeys : \E max_age \in MaxAges :
    /\ cache_dir' = TRUE
    /\ dlast' = [op |-> "load", key |-> key, max_age |-> max_age, value |-> "None",
                 found |-> ReadFile(files, get_cache_path(key)),
                 result |-> load_from_cache(files, now, key, max_age)]
    /\ UNCHANGED <<files, now, saved>>
    /\ UNCHANGED notdisk

\* save_to_cache in the steps other processes can see.  The entry is built
\* with datetime.now(); open(cache_path, "wb") truncates the file; pickle.dump
\* writes through the buffer, which may reach the file in parts; leaving the
\* with block flushes the rest.
NoWriter == [pc |-> "idle", key |-> <<>>, data |-> "None", timestamp |-> 0, old |-> NoFile]

\* open(cache_path, "wb"): the file is there, with no bytes in it
save_open ==
  \E key \in DiskKeys : \E data \in DiskValues :
    /\ writer.pc = "idle"
    /\ writer' = [pc |-> "opened", key |-> key, data |-> data, timestamp |-> now,
                  old |-> ReadFile(files, get_cache_path(key))]
    /\ files' = (get_cache_path(key) :> [kind |-> "empty", timestamp |-> 0, data |-> "None"]) @@ files
    /\ cache_dir' = TRUE
    /\ dlast' = [NoCall EXCEPT !.op = "open", !.key = key, !.value = data]
    /\ UNCHANGED <<now, saved>>
    /\ UNCHANGED nottorn

\* pickle.dump(cache_data, f): a first part of the pickle reaches the file
save_flush ==
  /\ writer.pc = "opened"
  /\ writer' = [writer EXCEPT !.pc = "flushed"]
  /\ files' = (get_cache_path(writer.key) :> [kind |-> "truncated", timestamp |-> 0, data |-> "None"])
                 @@ files
  /\ dlast' = [NoCall EXCEPT !.op = "flush", !.key = writer.key, !.value = writer.data]
  /\ UNCHANGED <<cache_dir, now, saved>>
  /\ UNCHANGED nottorn

\* the with block ends: the whole pickle is in the file
save_close ==
  /\ writer.pc \in {"opened", "flushed"}
  /\ writer' = NoWriter
  /\ files' = (get_cache_path(writer.key) :> Entry(writer.timestamp, writer.data)) @@ files
  /\ saved' = [saved EXCEPT ![writer.key] =
                 [set |-> TRUE, value |-> writer.data, time |-> writer.timestamp]]
  /\ dlast' = [NoCall EXCEPT !.op = "close", !.key = writer.key, !.value = writer.data]
  /\ UNCHANGED <<cache_dir, now>>
  /\ UNCHANGED nottorn

\* the files CACHE_DIR.glob("*.pickle") yields: directly in CACHE_DIR, named *.pickle
Globbed(fs) ==
  {p \in DOMAIN fs : Len(p) = 2 /\ <<p[1]>> = CACHE_DIR /\ p[2][Len(p[2])] = ".pickle"}

\* clear_cache()
clear_cache ==
  /\ files' = IF cache_dir THEN [p \in DOMAIN files \ Globbed(files) |-> files[p]] ELSE files
  /\ saved' = [k \in DiskKeys |-> NotSaved]
  /\ dlast' = [NoCall EXCEPT !.op = "clear"]
  /\ UNCHANGED <<cache_dir, now>>
  /\ UNCHANGED notdisk

\* time passes
Tick ==
  /\ now < MaxTime
  /\ now' = now + 1
  /\ dlast' = [NoCall EXCEPT !.op = "tick"]
  /\ UNCHANGED <<files, cache_dir, saved>>
  /\ UNCHANGED notdisk

DiskPaths == {get_cache_path(k) : k \in DiskKeys}

\* a file in the cache directory that is not named *.pickle
OtherFile == << <<"cache">>, <<"notes", ".txt">> >>

OtherContent == [kind |-> "garbage", timestamp |-> 0, data |-> "d1"]

\* a process starts with whatever an earlier run left in the cache directory
InitFiles ==
  /\ cache_dir \in BOOLEAN
  /\ \E S \in SUBSET {p \in DiskPaths : Len(p) = 2} : \E O \in SUBSET {OtherFile} :
       /\ (S \cup O # {} => cache_dir)
       /\ files \in {f @@ [p \in O |-> OtherContent] : f \in [S -> InitialContents]}
  /\ now = 0
  /\ dlast = NoCall
  /\ saved = [k \in DiskKeys |-> NotSaved]
  /\ writer = NoWriter

\* no file, and no call of the disk cache
NoDisk ==
  /\ cache_dir = FALSE
  /\ files = <<>>
  /\ now = 0
  /\ dlast = NoCall
  /\ saved = [k \in DiskKeys |-> NotSaved]
  /\ writer = NoWriter

\* ------------------------------------------------------- memoizing wrapper
\* keyword-argument names in the order sorted() puts them
NameOrder == <<"limit", "period", "ticker">>

NameRank(name) == CHOOSE i \in 1..Len(NameOrder) : NameOrder[i] = name

\* sorted(kwargs.items()): insertion sort of the <<name, value>> pairs by name
RECURSIVE InsertItem(_, _)
InsertItem(item, sorted) ==
  IF sorted = <<>> THEN <<item>>
  ELSE IF NameRank(item[1]) <= NameRank(Head(sorted)[1]) THEN <<item>> \o sorted
  ELSE <<Head(sorted)>> \o InsertItem(item, Tail(sorted))

RECURSIVE SortedItems(_)
SortedItems(items) ==
  IF items = <<>> THEN <<>> ELSE InsertItem(Head(items), SortedItems(Tail(items)))

\* "_".join(f"{k}={v}" for k, v in items)
RECURSIVE JoinItems(_)
JoinItems(items) ==
  IF items = <<>> THEN <<>>
  ELSE IF Len(items) = 1 THEN <<items[1][1], "=", items[1][2]>>
  ELSE <<items[1][1], "=", items[1][2], "_">> \o JoinItems(Tail(items))

\* get_cache_key joining the items in the order the call site wrote them
get_cache_key_unsorted(prefix, kwargs) == <<prefix, "_">> \o JoinItems(kwargs)

\* get_cache_key(prefix, **kwargs): f"{prefix}_{args_str}"
get_cache_key(prefix, kwargs) == <<prefix, "_">> \o JoinItems(SortedItems(kwargs))

\* the prefixes and keyword arguments get_cache_key is called with
Prefixes == {"prices", "financial"}

KwargValues(name) ==
  CASE name = "limit" -> {"5", "10"}
    [] name = "period" -> {"Q1", "Q2"}
    [] name = "ticker" -> Tickers

KwargNames == {NameOrder[i] : i \in 1..Len(NameOrder)}

\* **kwargs: each name at most once, in the order the call site wrote them
KwargLists ==
  {kw \in SeqsUpTo(UNION {{<<n, v>> : v \in KwargValues(n)} : n \in KwargNames}, Len(NameOrder)) :
     \A i, j \in 1..Len(kw) : i # j => kw[i][1] # kw[j][1]}

NoKeyCall == [op |-> "init", prefix |-> "", kwargs |-> <<>>, key |-> <<>>]

\* a call of get_cache_key(prefix, **kwargs)
get_cache_key_call ==
  \E prefix \in Prefixes : \E kwargs \in KwargLists :
    /\ klast' = [op |-> "key", prefix |-> prefix, kwargs |-> kwargs,
                 key |-> get_cache_key(prefix, kwargs)]
    /\ UNCHANGED notkey

\* get_cache_key is not called
NoKey == klast = NoKeyCall

\* @cache_api_call(prefix): the decorated operation is f(ticker, period)
Prefix == "prices"

\* duration: timedelta = timedelta(hours=24); time is counted in days
Duration == 1

\* the durations a decorator is configured with: none at all, or the default
Durations == {0, Duration}

Periods == {"Q1"}

\* what the wrapped operation returns: None, an empty list, or data
Results == {"None", "[]", "d1"}

\* the ways of calling f(ticker, period): positional and keyword arguments
CallForms ==
  UNION {{ [args |-> <<>>, kwargs |-> << <<"ticker", t>>, <<"period", q>> >>],
           [args |-> <<>>, kwargs |-> << <<"period", q>>, <<"ticker", t>> >>],
           [args |-> <<t>>, kwargs |-> << <<"period", q>> >>],
           [args |-> <<t, q>>, kwargs |-> <<>>] } : t \in Tickers, q \in Periods}

\* the ticker f receives in a call
TickerOf(call) ==
  IF call.args # <<>> THEN call.args[1]
  ELSE LET i == CHOOSE j \in 1..Len(call.kwargs) : call.kwargs[j][1] = "ticker"
       IN call.kwargs[i][2]

NoWrapperCall ==
  [op |-> "init", call |-> [args |-> <<>>, kwargs |-> <<>>], key |-> <<>>,
   time |-> 0, found |-> NoFile, left |-> NoFile, hit |-> FALSE, invoked |-> FALSE, wrapped |-> "None",
   persisted |-> FALSE, result |-> Return("None"), afterEmpty |-> FALSE]

\* a call of the decorated function: wrapper(*args, **kwargs)
wrapper ==
  \E call \in CallForms :
    \* cache_key = get_cache_key(prefix, **kwargs)
    \E cache_key \in {get_cache_key(Prefix, call.kwargs)} :
    \* cached_data = load_from_cache(cache_key, duration)
    \E cached_data \in {load_from_cache(files, now, cache_key, duration)} :
    \E path \in {get_cache_path(cache_key)} :
      LET hit == cached_data.outcome = "return" /\ cached_data.value # "None"
          invoked == cached_data.outcome = "return" /\ cached_data.value = "None"
          \* result = func(*args, **kwargs)
          result == func[TickerOf(call)]
          persisted == invoked /\ result # "None"
      IN /\ cache_dir' = TRUE
         /\ files' = IF persisted THEN SaveFile(files, now, cache_key, result) ELSE files
         /\ wlast' = [op |-> "call", call |-> call, key |-> cache_key, time |-> now,
                      found |-> ReadFile(files, path),
                      left |-> ReadFile(files', path),
                      hit |-> hit, invoked |-> invoked,
                      wrapped |-> IF invoked THEN result ELSE "None",
                      persisted |-> persisted,
                      result |-> IF invoked THEN Return(result) ELSE cached_data,
                      afterEmpty |-> (wlast.op = "call" /\ wlast.call = call
                                      /\ wlast.invoked /\ wlast.wrapped \in {"None", "[]"})]
         /\ UNCHANGED <<func, duration, now, dlast, saved>>
         /\ UNCHANGED notwrap

\* no decorated function is called
NoWrapper ==
  /\ func = [t \in Tickers |-> "None"]
  /\ duration = Duration
  /\ wlast = NoWrapperCall

\* ------------------------------------------------------------ specifications
\* the in-memory cache, its callers, and nothing on disk
Init == InitCache /\ NoDisk /\ NoWrapper /\ NoKey /\ NoRace

Next ==
  \/ set_prices \/ set_financial_metrics \/ set_line_items \/ set_insider_trades
  \/ set_company_news
  \/ get_prices \/ get_financial_metrics \/ get_line_items \/ get_insider_trades
  \/ get_company_news
  \/ caller_append \/ caller_pop

Spec == Init /\ [][Next]_vars

\* the disk cache, beside a Cache nobody calls
InitDisk == InitCache /\ InitFiles /\ NoWrapper /\ NoKey /\ NoRace

NextDisk == save_to_cache \/ load_call \/ clear_cache \/ Tick

SpecDisk == InitDisk /\ [][NextDisk]_vars

\* a process saving, in the steps of save_to_cache, while another loads; the
\* cache directory starts with entries an earlier save_to_cache wrote
InitTorn ==
  /\ InitCache /\ NoWrapper /\ NoKey /\ NoRace
  /\ cache_dir = TRUE
  /\ \E S \in SUBSET DiskPaths : files \in [S -> {Entry(0, v) : v \in DiskValues}]
  /\ now = 0
  /\ dlast = NoCall
  /\ saved = [k \in DiskKeys |-> NotSaved]
  /\ writer = NoWriter

NextTorn == save_open \/ save_flush \/ save_close \/ load_call \/ Tick

SpecTorn == InitTorn /\ [][NextTorn]_vars

\* a decorated operation called over an empty cache directory
InitWrap ==
  /\ InitCache
  /\ NoDisk
  /\ func \in [Tickers -> Results]
  /\ duration \in Durations
  /\ wlast = NoWrapperCall
  /\ NoKey
  /\ NoRace

NextWrap == wrapper \/ Tick \/ clear_cache

SpecWrap == InitWrap /\ [][NextWrap]_vars

\* calls of get_cache_key, beside a cache nobody calls
InitKey == InitCache /\ NoDisk /\ NoWrapper /\ NoKey /\ NoRace

NextKey == get_cache_key_call

SpecKey == InitKey /\ [][NextKey]_vars

\* two threads, each making one set_prices call on a fresh Cache
InitRace ==
  /\ InitCache /\ NoDisk /\ NoWrapper /\ NoKey
  /\ threads \in [Threads -> ThreadCalls]
  /\ overlapped = FALSE

NextRace == set_prices_read \/ set_prices_write

SpecRace == InitRace /\ [][NextRace]_vars

\* ------------------------------------------------- claims: in-memory cache
\* the items of the list stored for (c, t), as an optional list
Stored(c, t) == Deref(heap, store[c][t])

\* the category -> key field mapping as the specification states it
SpecKeyField ==
  ("prices" :> "time") @@ ("financial_metrics" :> "report_period")
  @@ ("line_items" :> "report_period") @@ ("insider_trades" :> "filing_date")
  @@ ("company_news" :> "date")

\* a record's key-field value; 0 stands for a record that has none
KeyOf(r, f) == IF f \in DOMAIN r THEN r[f] ELSE 0

KeysOf(items, f) == {KeyOf(items[i], f) : i \in 1..Len(items)}

Items(opt) == IF opt = <<>> THEN <<>> ELSE opt[1]

\* C1: as long as only set (and get) calls were made, no list stored for any
\* (category, ticker) holds two records with the same key-field value.
C1_NoDuplicateKeys ==
  ~mutated =>
    \A c \in Categories : \A t \in Tickers :
      LET items == Items(Stored(c, t))
      IN \A i, j \in 1..Len(items) :
           (i # j /\ HasKey(items[i], SpecKeyField[c]) /\ HasKey(items[j], SpecKeyField[c]))
             => items[i][SpecKeyField[c]] # items[j][SpecKeyField[c]]

IsPrefix(a, b) == Len(a) <= Len(b) /\ SubSeq(b, 1, Len(a)) = a

\* C2: after every set call the list stored before the call is a prefix of the
\* list stored for its (category, ticker); after a set call that returns, what
\* follows that prefix is the incoming records whose key-field value was not
\* stored before the call, in the caller's order.
C2_PrefixAndAppend ==
  last.op = "set" =>
    LET f == SpecKeyField[last.c]
        before == Items(last.before)
        after == Items(Stored(last.c, last.t))
    IN /\ IsPrefix(before, after)
       /\ last.outcome = "return" =>
            Stored(last.c, last.t)
              = <<before \o SelectSeq(last.data, LAMBDA r : KeyOf(r, f) \notin KeysOf(before, f))>>

\* C2 witness: a set call on a non-empty list dropped one incoming record and
\* appended another.
C2_Witness ==
  /\ last.op = "set" /\ last.outcome = "return"
  /\ Items(last.before) # <<>>
  /\ Len(Items(Stored(last.c, last.t))) > Len(Items(last.before))
  /\ Len(Items(Stored(last.c, last.t))) < Len(Items(last.before)) + Len(last.data)

\* C3: a set call whose incoming list contains a record lacking the
\* category's key field fails with KeyError, whatever is stored.
C3_MissingKeyFails ==
  (last.op = "set" /\ \E i \in 1..Len(last.data) : ~HasKey(last.data[i], SpecKeyField[last.c]))
    => last.outcome = "KeyError"

\* C4: a set call that repeats the set call before it (same category, ticker
\* and list) leaves the stored list as the first call left it.
C4_MergeIdempotent ==
  (last.op = "set" /\ last.repeat) => Stored(last.c, last.t) = last.before

\* C4 witness: the repeated call came after a first call that appended to a
\* non-empty stored list.
C4_Witness ==
  /\ last.op = "set" /\ last.repeat /\ last.outcome = "return"
  /\ Len(Items(Stored(last.c, last.t))) = MaxLen + 1
  /\ \A i \in 1..Len(last.data) : last.data[i] # Items(Stored(last.c, last.t))[1]
  /\ \E i \in 1..Len(last.data) : last.data[i] = Items(Stored(last.c, last.t))[MaxLen + 1]

\* C5: a caller changing a list it holds (one it passed to set, or one get
\* returned) changes no stored list.
C5_NoAliasing ==
  [][last'.op \in {"append", "pop"} =>
       \A c \in Categories : \A t \in Tickers : Stored(c, t)' = Stored(c, t)]_vars

\* C6: get returns None for a (category, ticker) never set, and returns an
\* empty list only if the latest set call for it passed an empty list.
C6_EmptyOnlyIfStored ==
  \A c \in Categories : \A t \in Tickers :
    /\ setHistory[c][t] = "never" => cache_get(c, t) = <<>>
    /\ cache_get(c, t) = << <<>> >> => setHistory[c][t] = "empty"

\* C18: a set call for (c, t) leaves the list stored for every other
\* (category, ticker) as it was, the same ticker under the other category
\* keyed by report_period included; a get call leaves every stored list, and
\* the store, as it was.
C18_BucketIsolation ==
  [][/\ last'.op = "set" =>
          \A c \in Categories : \A t \in Tickers :
            (c # last'.c \/ t # last'.t) => Stored(c, t)' = Stored(c, t)
     /\ last'.op = "get" =>
          (store' = store /\ \A c \in Categories : \A t \in Tickers : Stored(c, t)' = Stored(c, t))]_vars

\* C18 witness: set_financial_metrics stored records for a ticker whose
\* line_items list holds other records.
C18_Witness ==
  /\ last.op = "set" /\ last.outcome = "return" /\ last.c = "financial_metrics"
  /\ last.data # <<>>
  /\ Items(Stored("line_items", last.t)) # <<>>
  /\ Stored("line_items", last.t) # Stored("financial_metrics", last.t)

\* C19: a set call that fails with KeyError leaves the store as it was: the
\* same list, with the same records, for its (category, ticker) and for
\* every other.
C19_FailedSetKeepsStore ==
  [][(last'.op = "set" /\ last'.outcome = "KeyError") =>
       (store' = store /\ \A c \in Categories : \A t \in Tickers : Stored(c, t)' = Stored(c, t))]_vars

\* C19 witness: the failed call passed a record with a new key value before
\* the record lacking the key field, and the stored list is as before.
C19_Witness ==
  /\ last.op = "set" /\ last.outcome = "KeyError"
  /\ Items(last.before) # <<>> /\ Len(last.data) = 2
  /\ HasKey(last.data[1], SpecKeyField[last.c])
  /\ KeyOf(last.data[1], SpecKeyField[last.c]) \notin KeysOf(Items(last.before), SpecKeyField[last.c])
  /\ ~HasKey(last.data[2], SpecKeyField[last.c])
  /\ Stored(last.c, last.t) = last.before

\* the records of a list
Records(items) == {items[i] : i \in 1..Len(items)}

\* the two threads set the same ticker, and every record they pass has a time
\* no other record they pass has
DistinctNewKeys ==
  /\ threads[1].t = threads[2].t
  /\ \A i \in Threads : \A r \in Records(threads[i].data) : HasKey(r, "time")
  /\ \A i \in Threads : \A m, n \in 1..Len(threads[i].data) :
       m # n => KeyOf(threads[i].data[m], "time") # KeyOf(threads[i].data[n], "time")
  /\ KeysOf(threads[1].data, "time") \cap KeysOf(threads[2].data, "time") = {}

\* C14: when two set_prices calls for one ticker, passing records with
\* distinct new time values, ran one after the other, the stored list holds
\* every record either call passed.  (That an interleaving of the two calls
\* loses a record is the witness.)
C14_SequentialKeepsAll ==
  (DistinctNewKeys /\ ~overlapped /\ \A i \in Threads : threads[i].pc = "done")
    => \A i \in Threads :
         Records(threads[i].data) \subseteq Records(Items(Stored("prices", threads[i].t)))

\* C14 witness: the two calls interleaved, both returned, and a record one of
\* them passed is not in the stored list.
C14_Witness ==
  /\ DistinctNewKeys /\ overlapped /\ \A i \in Threads : threads[i].pc = "done"
  /\ \E i \in Threads :
       ~(Records(threads[i].data) \subseteq Records(Items(Stored("prices", threads[i].t))))

\* ----------------------------------------------------- claims: disk cache
Absent(r) == r = Return("None")

\* C7: a load of a readable entry written at time T returns absent when
\* max_age is given and now - T exceeds it, and the stored value otherwise.
C7_Staleness ==
  (dlast.op = "load" /\ dlast.found.kind = "entry") =>
    IF dlast.max_age # NoMaxAge /\ now - dlast.found.timestamp > dlast.max_age
      THEN Absent(dlast.result)
      ELSE dlast.result = Return(dlast.found.data)

\* C8: load_from_cache never raises, whatever the file under the key holds.
C8_LoadNeverRaises == dlast.op = "load" => dlast.result.outcome = "return"

\* C10: after save_to_cache(k, v), and until the next save under k or
\* clear_cache, load_from_cache(k) returns v and the entry carries the time of
\* that save, whatever was saved under other keys in between.
C10_RoundTrip ==
  \A k \in DiskKeys :
    saved[k].set =>
      /\ load_from_cache(files, now, k, NoMaxAge) = Return(saved[k].value)
      /\ ReadFile(files, get_cache_path(k)) = Entry(saved[k].time, saved[k].value)

\* C11: a load_from_cache call, whatever its key and max_age and whether the
\* entry is fresh, expired or unreadable, leaves every file as it was (the same
\* files, each with the same timestamp and payload); so an entry the call
\* found is still returned by a load with no max_age right after it.
C11_LoadKeepsEntries ==
  [][dlast'.op = "load" =>
       /\ files' = files
       /\ dlast'.found.kind = "entry" =>
            load_from_cache(files', now', dlast'.key, NoMaxAge) = Return(dlast'.found.data)]_vars

\* C11 witness: a load reported an entry absent because it is older than
\* max_age; the file is still there and a load with no max_age returns it.
C11_Witness ==
  /\ dlast.op = "load" /\ dlast.found.kind = "entry" /\ Absent(dlast.result)
  /\ dlast.max_age # NoMaxAge /\ now - dlast.found.timestamp > dlast.max_age
  /\ ReadFile(files, get_cache_path(dlast.key)) = dlast.found
  /\ load_from_cache(files, now, dlast.key, NoMaxAge) = Return(dlast.found.data)

\* C12: clear_cache removes every entry save_to_cache persisted and nothing
\* else: after it a load of any key saved before it returns absent, and a
\* file of the cache directory that is not named as cache entries are is left
\* as it was.
C12_ClearRemovesSaved ==
  [][dlast'.op = "clear" =>
       /\ \A k \in DiskKeys :
            saved[k].set => Absent(load_from_cache(files', now', k, NoMaxAge))
       /\ OtherFile \in DOMAIN files =>
            (OtherFile \in DOMAIN files' /\ files'[OtherFile] = files[OtherFile])]_vars

\* C17: a load_from_cache that runs while a save_to_cache of the same file,
\* over an existing entry v1, is between opening the file and closing it does
\* not raise, and returns v1, the value being saved, or None.
C17_TornRead ==
  (/\ dlast.op = "load" /\ writer.pc # "idle"
   /\ get_cache_path(dlast.key) = get_cache_path(writer.key)
   /\ writer.old.kind = "entry")
    => dlast.result \in {Return(writer.old.data), Return(writer.data), Return("None")}

\* C17 witness: a load with no max_age found the file partly written while an
\* entry was being overwritten, and returned None.
C17_Witness ==
  /\ dlast.op = "load" /\ dlast.max_age = NoMaxAge
  /\ writer.pc = "flushed" /\ writer.old.kind = "entry"
  /\ get_cache_path(dlast.key) = get_cache_path(writer.key)
  /\ dlast.found.kind = "truncated"
  /\ Absent(dlast.result)


\* C9: a call whose wrapped operation returned None or an empty list persists
\* nothing, and the next identical call invokes the wrapped operation again.
C9_EmptyNotCached ==
  wlast.op = "call" =>
    /\ (wlast.invoked /\ wlast.wrapped \in {"None", "[]"}) => ~wlast.persisted
    /\ wlast.afterEmpty => wlast.invoked

\* C15: a call whose key has a readable entry not older than the configured
\* duration returns the stored value and does not invoke the wrapped
\* operation; every other call invokes it with the call's arguments, returns
\* its result and, when the result is not None, leaves it persisted under the
\* key with the time of the call.
C15_HitMissProtocol ==
  wlast.op = "call" =>
    IF wlast.found.kind = "entry" /\ wlast.time - wlast.found.timestamp <= duration
      THEN ~wlast.invoked /\ wlast.result = Return(wlast.found.data)
      ELSE /\ wlast.invoked
           /\ wlast.result = Return(func[TickerOf(wlast.call)])
           /\ func[TickerOf(wlast.call)] # "None" =>
                wlast.left = Entry(wlast.time, func[TickerOf(wlast.call)])

\* C16: when the wrapped operation never returns None, every call of the
\* wrapped function returns what the operation returns for the call's own
\* ticker, however the arguments are passed and whether or not the result
\* comes from the disk cache.
C16_Transparent ==
  (wlast.op = "call" /\ \A t \in Tickers : func[t] # "None")
    => wlast.result = Return(func[TickerOf(wlast.call)])

\* -------------------------------------------------- claims: cache keys
\* the value passed for a name
ValueOf(kwargs, name) ==
  LET i == CHOOSE j \in 1..Len(kwargs) : kwargs[j][1] = name IN kwargs[i][2]

\* prefix, "_", then name=value for the names in alphabetical order, "_" between
ExpectedKey(prefix, kwargs) ==
  LET given == {kwargs[i][1] : i \in 1..Len(kwargs)}
      names == SelectSeq(<<"limit", "period", "ticker">>, LAMBDA n : n \in given)
  IN <<prefix, "_">>
       \o [j \in 1..(4 * Len(names) - 1) |->
            LET name == names[(j - 1) \div 4 + 1]
            IN CASE (j - 1) % 4 = 0 -> name
                 [] (j - 1) % 4 = 1 -> "="
                 [] (j - 1) % 4 = 2 -> ValueOf(kwargs, name)
                 [] (j - 1) % 4 = 3 -> "_"]

\* C13: the key get_cache_key returns is the prefix, "_", then the name=value
\* items sorted by name and joined by "_"; it is the same for every order in
\* which the same name/value pairs are supplied.
C13_KeyDeterminism ==
  klast.op = "key" =>
    /\ klast.key = ExpectedKey(klast.prefix, klast.kwargs)
    /\ \A other \in KwargLists :
         {other[i] : i \in 1..Len(other)} = {klast.kwargs[i] : i \in 1..Len(klast.kwargs)}
           => get_cache_key(klast.prefix, other) = klast.key

\* C13 witness: three keyword arguments supplied in reverse alphabetical order
C13_Witness ==
  /\ klast.op = "key" /\ Len(klast.kwargs) = 3
  /\ klast.kwargs[1][1] = "ticker" /\ klast.kwargs[2][1] = "period" /\ klast.kwargs[3][1] = "limit"
  /\ klast.key = <<klast.prefix, "_", "limit", "=", klast.kwargs[3][2], "_",
                   "period", "=", klast.kwargs[2][2], "_", "ticker", "=", klast.kwargs[1][2]>>

====
